---- MODULE Spec2Model ----
(***************************************************************************)
(* The reminder scheduling engine of src-tauri/src/notifications.rs:       *)
(* the Instance (group collection + optional Scheduler handle), the three  *)
(* commands behind the Data mutex, Instance::start, and the scheduler      *)
(* service future that start() spawns.                                     *)
(*                                                                         *)
(* Option<T> is a sequence of length at most one: <<>> is None, <<x>> is   *)
(* Some(x).  Time is abstracted: any job the service holds may be due.     *)
(***************************************************************************)
EXTENDS Integers, Sequences, FiniteSets, TLC

\* ---- bounds of the model ----
MaxGroups == 2
NumIds == 2
MaxStarts == 2
MaxKeys == 2
NumClients == 2

\* ---- program constants ----
RetryCap == 100

Ids == 1..NumIds
ValidCron == "0 0 9 * * *"
BadCron == "not-a-cron"
Crons == {ValidCron, BadCron}

\* cron::Schedule::from_str: Ok for a well-formed expression, Err otherwise.
from_str_ok(c) == c = ValidCron

\* struct Group; job_id is Option<JobId>, title/description are carried by id.
Group(id, enabled, cron, job) ==
    [id |-> id, enabled |-> enabled, cron |-> cron, job_id |-> job]

\* The `group: Group` argument a command deserializes: job_id is serde(skip),
\* so it arrives as None; id is overwritten by new_group.
ArgGroups == {Group(0, en, c, <<>>) : en \in BOOLEAN, c \in Crons}

VARIABLES groups, scheduler, svc, poisoned, last
\* The Data mutex and the command invocations in flight: who holds the lock,
\* where each invocation stands, and what it was called with.
VARIABLES owner, pc, req

vars == <<groups, scheduler, svc, poisoned, last, owner, pc, req>>

\* The lock and the invocations in flight.
cvars == <<owner, pc, req>>

Epochs == 1..MaxStarts

\* remove(index) dropping the last element instead (pop).
remove_last(s, index) == [i \in 1..(Len(s) - 1) |-> s[i]]

\* Vec::remove(index) for a valid 0-based index.
remove(s, index) ==
    [i \in 1..(Len(s) - 1) |-> IF i <= index THEN s[i] ELSE s[i + 1]]

\* to_json(&data.file.groups): job_id is serde(skip).
to_json(gs) ==
    [i \in 1..Len(gs) |->
       [id |-> gs[i].id, enabled |-> gs[i].enabled, cron |-> gs[i].cron]]

\* What a command or step leaves behind for its caller.
Ret(op, status, arg, index, errors, fired) ==
    [op |-> op, status |-> status, arg |-> arg, index |-> index,
     errors |-> errors, fired |-> fired]

\* ---- Scheduler handle and service (Scheduler::launch) ----
\* The handle owns the key table; insert/remove reach the service future
\* through the command channel the two share.
launch(epoch) == [epoch |-> epoch, keys |-> {}, next |-> 1]

FreshSvc == [state |-> "idle", chan |-> <<>>, jobs |-> {}]

\* scheduler.insert(job, closure): a fresh JobId, the closure holds group.clone().
insert(h, chan, g) ==
    [h |-> [h EXCEPT !.keys = @ \cup {h.next}, !.next = @ + 1],
     chan |-> Append(chan, [op |-> "Insert", key |-> h.next, gid |-> g.id]),
     key |-> h.next]

\* scheduler.remove(job_id)
sched_remove(h, chan, key) ==
    IF key \in h.keys
    THEN [h |-> [h EXCEPT !.keys = @ \ {key}],
          chan |-> Append(chan, [op |-> "Remove", key |-> key, gid |-> 0])]
    ELSE [h |-> h, chan |-> chan]

\* create_job without `self.job_id = Some(job_id)`.
create_job_forgets_id(g, h, chan) ==
    IF g.enabled
    THEN IF from_str_ok(g.cron)
         THEN LET r == insert(h, chan, g)
              IN [ok |-> TRUE, g |-> g, h |-> r.h, chan |-> r.chan]
         ELSE [ok |-> FALSE, g |-> g, h |-> h, chan |-> chan]
    ELSE [ok |-> TRUE, g |-> g, h |-> h, chan |-> chan]

\* create_job without the `if self.enabled` test.
create_job_ignores_enabled(g, h, chan) ==
    IF from_str_ok(g.cron)
    THEN LET r == insert(h, chan, g)
         IN [ok |-> TRUE, g |-> [g EXCEPT !.job_id = <<r.key>>],
             h |-> r.h, chan |-> r.chan]
    ELSE [ok |-> FALSE, g |-> g, h |-> h, chan |-> chan]

\* Group::create_job
create_job(g, h, chan) ==
    IF g.enabled
    THEN IF from_str_ok(g.cron)
         THEN LET r == insert(h, chan, g)
              IN [ok |-> TRUE, g |-> [g EXCEPT !.job_id = <<r.key>>],
                  h |-> r.h, chan |-> r.chan]
         ELSE [ok |-> FALSE, g |-> g, h |-> h, chan |-> chan]
    ELSE [ok |-> TRUE, g |-> g, h |-> h, chan |-> chan]

\* The loop of start() leaving at the first error (`?` instead of push).
RECURSIVE start_loop_aborts(_, _, _)
start_loop_aborts(gs, i, acc) ==
    IF i > Len(gs) THEN acc
    ELSE LET r == create_job(gs[i], acc.h, acc.chan)
         IN IF r.ok
            THEN start_loop_aborts(gs, i + 1,
                   [gs |-> Append(acc.gs, r.g), h |-> r.h, chan |-> r.chan,
                    errors |-> acc.errors])
            ELSE [gs |-> acc.gs \o SubSeq(gs, i, Len(gs)), h |-> acc.h,
                  chan |-> acc.chan, errors |-> Append(acc.errors, i)]

\* The `for group in &mut self.file.groups` loop of Instance::start.
RECURSIVE start_loop(_, _, _)
start_loop(gs, i, acc) ==
    IF i > Len(gs) THEN acc
    ELSE LET r == create_job(gs[i], acc.h, acc.chan)
         IN start_loop(gs, i + 1,
              [gs |-> Append(acc.gs, r.g), h |-> r.h, chan |-> r.chan,
               errors |-> IF r.ok THEN acc.errors ELSE Append(acc.errors, i)])

NextEpoch == IF scheduler = <<>> THEN 1 ELSE scheduler[1].epoch + 1

\* Instance::start on the collection gs: the new handle, the rescheduled
\* groups, the channel of the new service and the collected errors.
start(gs) ==
    start_loop(gs, 1, [gs |-> <<>>, h |-> launch(NextEpoch), chan |-> <<>>,
                       errors |-> <<>>])

\* errors.get(0): the dialog shows the first error only.
dialog(errors) == IF errors = <<>> THEN <<>> ELSE <<errors[1]>>

\* The service table after start(): the new service is spawned with the
\* commands already queued for it.
spawn(r) ==
    [svc EXCEPT ![r.h.epoch] = [state |-> "running", chan |-> r.chan, jobs |-> {}]]

\* ---- Instance::generate_id ----
exists(gs, id) == \E i \in 1..Len(gs) : gs[i].id = id

\* generate_id returning its first draw without the `exists` test.
generate_id_unchecked(gs) == {<<id>> : id \in Ids}

\* The outcomes of the retry loop `for _ in 0..100`: draw t is reached when
\* the t-1 draws before it all collided, and returns Some(id) when its id is
\* free; None is the panic after the last draw collided as well.
generate_id(gs) ==
    LET taken == {x \in Ids : exists(gs, x)}
        reached(t) == t = 1 \/ taken # {}
    IN {<<id>> : id \in Ids \ taken, t \in {u \in 1..RetryCap : reached(u)}}
       \cup (IF reached(RetryCap + 1) THEN {<<>>} ELSE {})

\* add_group whose None branch only pushes the group, without start().
add_group_defers(g) ==
    IF scheduler # <<>>
    THEN LET h == scheduler[1]
             r == create_job(g, h, svc[h.epoch].chan)
         IN IF r.ok
            THEN [ok |-> TRUE, groups |-> Append(groups, r.g),
                  scheduler |-> <<r.h>>,
                  svc |-> [svc EXCEPT ![h.epoch].chan = r.chan],
                  errors |-> <<>>]
            ELSE [ok |-> FALSE, groups |-> groups, scheduler |-> scheduler,
                  svc |-> svc, errors |-> <<>>]
    ELSE [ok |-> TRUE, groups |-> Append(groups, g), scheduler |-> scheduler,
          svc |-> svc, errors |-> <<>>]

\* add_group inserting the new group at the front (insert(0, group)).
add_group_prepends(g) ==
    IF scheduler # <<>>
    THEN LET h == scheduler[1]
             r == create_job(g, h, svc[h.epoch].chan)
         IN IF r.ok
            THEN [ok |-> TRUE, groups |-> <<r.g>> \o groups,
                  scheduler |-> <<r.h>>,
                  svc |-> [svc EXCEPT ![h.epoch].chan = r.chan],
                  errors |-> <<>>]
            ELSE [ok |-> FALSE, groups |-> groups, scheduler |-> scheduler,
                  svc |-> svc, errors |-> <<>>]
    ELSE LET r == start(Append(groups, g))
         IN [ok |-> TRUE, groups |-> r.gs, scheduler |-> <<r.h>>,
             svc |-> spawn(r), errors |-> r.errors]

\* ---- Instance::add_group ----
\* Result: the state after the call and whether it returned Ok.
add_group(g) ==
    IF scheduler # <<>>
    THEN LET h == scheduler[1]
             r == create_job(g, h, svc[h.epoch].chan)
         IN IF r.ok
            THEN [ok |-> TRUE, groups |-> Append(groups, r.g),
                  scheduler |-> <<r.h>>,
                  svc |-> [svc EXCEPT ![h.epoch].chan = r.chan],
                  errors |-> <<>>]
            ELSE [ok |-> FALSE, groups |-> groups, scheduler |-> scheduler,
                  svc |-> svc, errors |-> <<>>]
    ELSE LET r == start(Append(groups, g))
         IN [ok |-> TRUE, groups |-> r.gs, scheduler |-> <<r.h>>,
             svc |-> spawn(r), errors |-> r.errors]

\* ---- Instance::delete_group for an index in range ----
instance_delete_group(index) ==
    IF scheduler = <<>>
    THEN [groups |-> remove(groups, index), scheduler |-> scheduler,
          svc |-> svc]
    ELSE LET h == scheduler[1]
             job == groups[index + 1].job_id
             r == IF job # <<>> THEN sched_remove(h, svc[h.epoch].chan, job[1])
                  ELSE [h |-> h, chan |-> svc[h.epoch].chan]
         IN [groups |-> remove(groups, index), scheduler |-> <<r.h>>,
             svc |-> [svc EXCEPT ![h.epoch].chan = r.chan]]

\* ---- command invocations (tauri runs each #[command] as its own task) ----
Procs == 1..NumClients

\* No invocation in flight.
NoReq == [op |-> "none", arg |-> <<>>, index |-> 0, errors |-> <<>>, snap |-> <<>>]

\* ---- initial state ----
\* Instance { scheduler: None, file }: the collection is empty or loaded
\* from the reminders file, where ids are distinct and job_id is skipped.
RECURSIVE Loaded(_)
Loaded(n) ==
    IF n = 0 THEN {<<>>}
    ELSE Loaded(n - 1) \cup
         {Append(s, Group(id, en, c, <<>>)) :
            s \in {t \in Loaded(n - 1) : Len(t) = n - 1},
            id \in Ids, en \in BOOLEAN, c \in Crons}

DistinctIds(gs) == \A i, j \in 1..Len(gs) : gs[i].id = gs[j].id => i = j

Init ==
    /\ groups \in {gs \in Loaded(MaxGroups) : DistinctIds(gs)}
    /\ scheduler = <<>>
    /\ svc = [e \in Epochs |-> FreshSvc]
    /\ poisoned = FALSE
    /\ last = Ret("init", "Ok", <<>>, 0, <<>>, <<>>)
    /\ owner = <<>>
    /\ pc = [p \in Procs |-> "idle"]
    /\ req = [p \in Procs |-> NoReq]

\* ---- actions ----
KeysLeft(n) ==
    IF scheduler = <<>> THEN TRUE ELSE scheduler[1].next + n <= MaxKeys + 1

\* Instance::start called by the owner of the Instance.
Start ==
    /\ ~poisoned
    /\ NextEpoch <= MaxStarts
    /\ LET r == start(groups)
       IN /\ groups' = r.gs
          /\ scheduler' = <<r.h>>
          /\ svc' = spawn(r)
          /\ last' = Ret("start", "Ok", <<>>, 0, r.errors, <<>>)
    /\ UNCHANGED poisoned
    /\ UNCHANGED cvars

\* A command on a poisoned mutex: data.0.lock().unwrap() panics.
LockPanics(op) ==
    /\ poisoned
    /\ last' = Ret(op, "Panic", <<>>, 0, <<>>, <<>>)
    /\ UNCHANGED <<groups, scheduler, svc, poisoned>>
    /\ UNCHANGED cvars

\* #[command] get_groups
GetGroups ==
    \/ LockPanics("get_groups")
    \/ /\ ~poisoned
       /\ last' = Ret("get_groups", "Ok", to_json(groups), 0, <<>>, <<>>)
       /\ UNCHANGED <<groups, scheduler, svc, poisoned>>
       /\ UNCHANGED cvars

\* #[command] new_group
NewGroup ==
    \/ LockPanics("new_group")
    \/ /\ ~poisoned
       /\ Len(groups) < MaxGroups
       /\ KeysLeft(1)
       /\ UNCHANGED cvars
       /\ \E arg \in ArgGroups, id \in generate_id(groups), saveOk \in BOOLEAN :
            IF id = <<>>
            THEN /\ poisoned' = TRUE
                 /\ last' = Ret("new_group", "Panic", arg, 0, <<>>, <<>>)
                 /\ UNCHANGED <<groups, scheduler, svc>>
            ELSE LET r == add_group([arg EXCEPT !.id = id[1]])
                 IN /\ groups' = r.groups
                    /\ scheduler' = r.scheduler
                    /\ svc' = r.svc
                    /\ last' = Ret("new_group",
                                   IF ~r.ok THEN "ErrCron"
                                   ELSE IF saveOk THEN "Ok" ELSE "ErrSave",
                                   [arg EXCEPT !.id = id[1]], 0, r.errors, <<>>)
                    /\ UNCHANGED poisoned

\* delete_group undoing the removal when save() fails.
DeleteGroup_rolls_back ==
    \/ LockPanics("delete_group")
    \/ /\ ~poisoned
       /\ UNCHANGED cvars
       /\ \E index \in 0..MaxGroups, saveOk \in BOOLEAN :
            IF index >= Len(groups)
            THEN /\ poisoned' = TRUE
                 /\ last' = Ret("delete_group", "Panic", <<>>, index, <<>>, <<>>)
                 /\ UNCHANGED <<groups, scheduler, svc>>
            ELSE LET r == instance_delete_group(index)
                 IN /\ groups' = IF saveOk THEN r.groups ELSE groups
                    /\ scheduler' = IF saveOk THEN r.scheduler ELSE scheduler
                    /\ svc' = IF saveOk THEN r.svc ELSE svc
                    /\ last' = Ret("delete_group",
                                   IF saveOk THEN "Ok" ELSE "ErrSave",
                                   <<>>, index, <<>>, <<>>)
                    /\ UNCHANGED poisoned

\* #[command] delete_group; the index is a usize.
DeleteGroup ==
    \/ LockPanics("delete_group")
    \/ /\ ~poisoned
       /\ UNCHANGED cvars
       /\ \E index \in 0..MaxGroups, saveOk \in BOOLEAN :
            IF index >= Len(groups)
            THEN /\ poisoned' = TRUE
                 /\ last' = Ret("delete_group", "Panic", <<>>, index, <<>>, <<>>)
                 /\ UNCHANGED <<groups, scheduler, svc>>
            ELSE LET r == instance_delete_group(index)
                 IN /\ groups' = r.groups
                    /\ scheduler' = r.scheduler
                    /\ svc' = r.svc
                    /\ last' = Ret("delete_group",
                                   IF saveOk THEN "Ok" ELSE "ErrSave",
                                   <<>>, index, <<>>, <<>>)
                    /\ UNCHANGED poisoned

\* The handle of service e has been dropped (replaced by a later start()).
Dropped(e) == IF scheduler = <<>> THEN FALSE ELSE scheduler[1].epoch # e

\* The service future takes one command off its channel, or finds the
\* channel closed and exits.
SvcRecv(e) ==
    /\ svc[e].state = "running"
    /\ IF svc[e].chan # <<>>
       THEN LET c == Head(svc[e].chan)
            IN svc' = [svc EXCEPT ![e].chan = Tail(@),
                         ![e].jobs = IF c.op = "Insert"
                                     THEN @ \cup {[key |-> c.key, gid |-> c.gid]}
                                     ELSE {j \in @ : j.key # c.key}]
       ELSE /\ Dropped(e)
            /\ svc' = [svc EXCEPT ![e].state = "exited", ![e].jobs = {}]
    /\ last' = Ret("recv", "Ok", <<>>, 0, <<>>, <<>>)
    /\ UNCHANGED <<groups, scheduler, poisoned>>
    /\ UNCHANGED cvars

\* The closure locking the store before it shows the notification.
SvcFire_takes_lock(e) ==
    /\ svc[e].state = "running"
    /\ owner = <<>>
    /\ \E j \in svc[e].jobs, shown \in BOOLEAN :
         last' = Ret("fire", IF shown THEN "Ok" ELSE "ErrSink", <<>>, 0, <<>>,
                     <<[epoch |-> e, key |-> j.key, gid |-> j.gid]>>)
    /\ UNCHANGED <<groups, scheduler, svc, poisoned>>
    /\ UNCHANGED cvars

\* A one-shot job: the service drops the job once its closure has run.
SvcFire_one_shot(e) ==
    /\ svc[e].state = "running"
    /\ \E j \in svc[e].jobs, shown \in BOOLEAN :
         /\ last' = Ret("fire", IF shown THEN "Ok" ELSE "ErrSink", <<>>, 0, <<>>,
                        <<[epoch |-> e, key |-> j.key, gid |-> j.gid]>>)
         /\ svc' = [svc EXCEPT ![e].jobs = @ \ {j}]
    /\ UNCHANGED <<groups, scheduler, poisoned>>
    /\ UNCHANGED cvars

\* The closure unscheduling its job when the notification cannot be shown.
SvcFire_cancels_on_error(e) ==
    /\ svc[e].state = "running"
    /\ \E j \in svc[e].jobs, shown \in BOOLEAN :
         /\ last' = Ret("fire", IF shown THEN "Ok" ELSE "ErrSink", <<>>, 0, <<>>,
                        <<[epoch |-> e, key |-> j.key, gid |-> j.gid]>>)
         /\ svc' = IF shown THEN svc ELSE [svc EXCEPT ![e].jobs = @ \ {j}]
    /\ UNCHANGED <<groups, scheduler, poisoned>>
    /\ UNCHANGED cvars

\* The service future runs the closure of a due job: the notification is
\* shown from the captured snapshot; its result is only printed.
SvcFire(e) ==
    /\ svc[e].state = "running"
    /\ \E j \in svc[e].jobs, shown \in BOOLEAN :
         last' = Ret("fire", IF shown THEN "Ok" ELSE "ErrSink", <<>>, 0, <<>>,
                     <<[epoch |-> e, key |-> j.key, gid |-> j.gid]>>)
    /\ UNCHANGED <<groups, scheduler, svc, poisoned>>
    /\ UNCHANGED cvars

\* An invoke of "update_group": the handler list registers get_groups,
\* new_group and delete_group only, and Instance has no update method, so
\* the invoke is rejected before any handler runs and the store is untouched.
UpdateGroup ==
    /\ \E id \in Ids, c \in Crons :
         last' = Ret("update_group", "ErrNoCommand", [id |-> id, cron |-> c],
                     0, <<>>, <<>>)
    /\ UNCHANGED <<groups, scheduler, svc, poisoned>>
    /\ UNCHANGED cvars

Next ==
    \/ Start
    \/ UpdateGroup
    \/ GetGroups
    \/ NewGroup
    \/ DeleteGroup
    \/ \E e \in Epochs : SvcRecv(e)
    \/ \E e \in Epochs : SvcFire(e)

Spec == Init /\ [][Next]_vars

\* ---- what the claims speak of ----
Running == scheduler # <<>>

\* enabled with a cron that parses
Schedulable(g) == g.enabled /\ from_str_ok(g.cron)

\* The jobs of the running registry: inserted through the current handle
\* (queued for, or held by, its service) and not removed from its key table.
QueuedInserts(e) ==
    {[key |-> svc[e].chan[i].key, gid |-> svc[e].chan[i].gid] :
        i \in {n \in 1..Len(svc[e].chan) : svc[e].chan[n].op = "Insert"}}

ActiveJobs ==
    IF Running
    THEN {j \in QueuedInserts(scheduler[1].epoch) \cup svc[scheduler[1].epoch].jobs :
            j.key \in scheduler[1].keys}
    ELSE {}

HasActiveJob(g) ==
    /\ g.job_id # <<>>
    /\ Cardinality({j \in ActiveJobs : j.key = g.job_id[1]}) = 1
    /\ \A j \in ActiveJobs : j.key = g.job_id[1] => j.gid = g.id

\* C1: while the scheduler is running, every enabled group with a parsable
\* cron has a job_id that refers to exactly one active job of the registry,
\* and no two groups share a job.
C1_ScheduledWhileRunning ==
    Running =>
      /\ \A i \in 1..Len(groups) :
           Schedulable(groups[i]) => HasActiveJob(groups[i])
      /\ \A i, j \in 1..Len(groups) :
           (i # j /\ groups[i].job_id # <<>>) => groups[i].job_id # groups[j].job_id

C1_Witness ==
    /\ Running
    /\ last.op = "new_group" /\ last.status = "Ok"
    /\ Len(groups) = 2
    /\ Schedulable(groups[1]) /\ Schedulable(groups[2])
    /\ scheduler[1].next > 2

\* C2: a disabled group has job_id None and no job in the registry; while
\* the scheduler is not running every group has job_id None.
C2_UnscheduledWhenDisabledOrStopped ==
    /\ \A i \in 1..Len(groups) :
         ~groups[i].enabled =>
            /\ groups[i].job_id = <<>>
            /\ \A j \in ActiveJobs : j.gid # groups[i].id
    /\ ~Running => \A i \in 1..Len(groups) : groups[i].job_id = <<>>

C2_Witness ==
    /\ Running
    /\ last.op = "new_group" /\ last.status = "Ok" /\ ~last.arg.enabled
    /\ Len(groups) = 2
    /\ ~groups[1].enabled /\ from_str_ok(groups[1].cron)
    /\ groups[2] = last.arg

\* C3: the ids of the groups in the collection are pairwise distinct.
C3_IdsUnique == DistinctIds(groups)

C3_Witness ==
    /\ last.op = "new_group" /\ last.status = "Ok"
    /\ Len(groups) = 2
    /\ groups[2].id = last.arg.id

\* C4: once delete_group has removed a scheduled group, the background loop
\* never fires that group's job again.
C4_NoFireAfterDelete ==
    (last.op = "fire" /\ Running) =>
       ~(/\ last.fired[1].epoch = scheduler[1].epoch
         /\ last.fired[1].key \notin scheduler[1].keys)

\* C5: new_group with an enabled group whose cron does not parse returns an
\* error and leaves the collection and the registry as they were, whether
\* the scheduler was running or not.
C5_CreateFailsAtomically ==
    [][(/\ last'.op = "new_group"
        /\ last'.status # "Panic"
        /\ last'.arg.enabled /\ ~from_str_ok(last'.arg.cron))
       => (/\ last'.status = "ErrCron"
           /\ UNCHANGED <<groups, scheduler, svc>>)]_vars

\* C6: delete_group with an index that is no position of the collection
\* returns an error value, changes nothing and leaves the store usable.
C6_DeleteOutOfRangeIsAnError ==
    [][(/\ ~poisoned
        /\ last'.op = "delete_group"
        /\ last'.index >= Len(groups))
       => (/\ last'.status # "Panic"
           /\ ~poisoned'
           /\ UNCHANGED <<groups, scheduler, svc>>)]_vars

\* C7: after start() on a collection of enabled groups of which exactly one
\* has an unparsable cron, every other group has an active job whatever the
\* position of the invalid one, the invalid group has none, and exactly one
\* error is collected and shown.
OnlyInvalidAt(k) ==
    /\ k \in 1..Len(groups)
    /\ \A i \in 1..Len(groups) :
         groups[i].enabled /\ (from_str_ok(groups[i].cron) <=> i # k)

C7_StartCollectsErrors ==
    \A k \in 1..MaxGroups + 1 :
      (last.op = "start" /\ OnlyInvalidAt(k)) =>
         /\ \A i \in 1..Len(groups) : i # k => HasActiveJob(groups[i])
         /\ groups[k].job_id = <<>>
         /\ \A j \in ActiveJobs : j.gid # groups[k].id
         /\ last.errors = <<k>>
         /\ dialog(last.errors) = <<k>>

C7_Witness ==
    /\ last.op = "start"
    /\ Len(groups) = 2
    /\ OnlyInvalidAt(1)
    /\ HasActiveJob(groups[2])

\* C8: start() on a running scheduler is a no-op: no second loop, no new
\* jobs, every job_id unchanged.
C8_StartIdempotent ==
    [][(last'.op = "start" /\ Running)
       => UNCHANGED <<groups, scheduler, svc>>]_vars

\* C9 as stated: add_group while the scheduler is None only appends the
\* group; it launches no loop and creates no job.
C9_AddDefers ==
    [][(/\ last'.op = "new_group"
        /\ ~poisoned /\ last'.status # "Panic"
        /\ ~Running)
       => (/\ groups' = Append(groups, last'.arg)
           /\ UNCHANGED <<scheduler, svc>>)]_vars

\* C9 amended: add_group while the scheduler is None appends the group and
\* calls start() itself: the call returns Ok with the scheduler running, one
\* service spawned, and every enabled group with a parsable cron, the new
\* one included, scheduled; the other groups keep job_id None.
C9_AddStarts ==
    [][(/\ last'.op = "new_group"
        /\ ~poisoned /\ last'.status # "Panic"
        /\ ~Running)
       => (/\ last'.status \in {"Ok", "ErrSave"}
           /\ scheduler' # <<>>
           /\ svc'[1].state = "running"
           /\ Len(groups') = Len(groups) + 1
           /\ groups'[Len(groups')].id = last'.arg.id
           /\ \A i \in 1..Len(groups') :
                IF Schedulable(groups'[i])
                THEN /\ groups'[i].job_id # <<>>
                     /\ groups'[i].job_id[1] \in scheduler'[1].keys
                ELSE groups'[i].job_id = <<>>)]_vars

C9_Witness ==
    /\ last.op = "new_group" /\ last.status = "Ok"
    /\ Schedulable(last.arg)
    /\ last.errors = <<1>>
    /\ Running /\ scheduler[1].epoch = 1
    /\ Len(groups) = 2 /\ HasActiveJob(groups[2])
    /\ svc[1].state = "running"

\* C10: when every candidate id collides, new_group returns an error value
\* instead of aborting, and the store remains usable.
C10_ExhaustionIsAnError ==
    [][(~poisoned /\ last'.op = "new_group")
       => (last'.status # "Panic" /\ ~poisoned')]_vars

\* ---- claims C13..C20 under Spec ----
Succeeded(status) == status \in {"Ok", "ErrSave"}

FiredJob == [key |-> last.fired[1].key, gid |-> last.fired[1].gid]

SinkFailed == last.op = "fire" /\ last.status = "ErrSink"

JobStillScheduled ==
    /\ svc[last.fired[1].epoch].state = "running"
    /\ FiredJob \in svc[last.fired[1].epoch].jobs
    /\ ENABLED SvcFire(last.fired[1].epoch)

\* C13: when the notification call of a job closure fails, the store and the
\* scheduler are untouched, the job stays scheduled in its service, and it
\* can fire again.
C13_SinkFailureIsNonFatal ==
    /\ [](SinkFailed => JobStillScheduled)
    /\ [][SinkFailed' => UNCHANGED <<groups, scheduler, svc, poisoned>>]_vars

C13_Witness ==
    /\ last.op = "fire" /\ last.status = "ErrSink"
    /\ Running /\ last.fired[1].epoch = scheduler[1].epoch
    /\ \E i \in 1..Len(groups) :
         groups[i].job_id = <<last.fired[1].key>> /\ groups[i].id = last.fired[1].gid

\* C14: when save() fails after new_group added a group or delete_group
\* removed one, the command returns the error and the collection and the
\* registry keep the mutation: the added group stays with its job, the
\* deleted group stays removed with its job cancelled.
C14_SaveFailureKeepsMutation ==
    [][(~poisoned /\ last'.status = "ErrSave")
       => /\ last'.op \in {"new_group", "delete_group"}
          /\ last'.op = "new_group" =>
               /\ Len(groups') = Len(groups) + 1
               /\ groups'[Len(groups')].id = last'.arg.id
               /\ Schedulable(last'.arg) =>
                    /\ groups'[Len(groups')].job_id # <<>>
                    /\ groups'[Len(groups')].job_id[1] \in scheduler'[1].keys
          /\ last'.op = "delete_group" =>
               /\ Len(groups') = Len(groups) - 1
               /\ \A i \in 1..Len(groups') :
                    groups'[i].id # groups[last'.index + 1].id
               /\ (Running /\ groups[last'.index + 1].job_id # <<>>) =>
                    groups[last'.index + 1].job_id[1] \notin scheduler'[1].keys]_vars

C14_Witness ==
    /\ last.op = "delete_group" /\ last.status = "ErrSave"
    /\ Running /\ scheduler[1].next = 2 /\ scheduler[1].keys = {}
    /\ groups = <<>>

\* C15: update_group changing a group's cron leaves the group with the new
\* cron and the same id, its old job cancelled.
C15_UpdateReschedules ==
    [][(/\ last'.op = "update_group"
        /\ \E i \in 1..Len(groups) :
             groups[i].id = last'.arg.id /\ groups[i].cron # last'.arg.cron)
       => \A i \in 1..Len(groups) :
            groups[i].id = last'.arg.id =>
               /\ Len(groups') = Len(groups)
               /\ groups'[i].id = groups[i].id
               /\ groups'[i].cron = last'.arg.cron
               /\ (Running /\ groups[i].job_id # <<>>) =>
                    groups[i].job_id[1] \notin scheduler'[1].keys]_vars

C18_NoOrphanedJobs ==
    /\ Running =>
         \A k \in scheduler[1].keys :
            Cardinality({i \in 1..Len(groups) : groups[i].job_id = <<k>>}) = 1
    /\ (last.op = "fire" /\ Running /\ last.fired[1].epoch = scheduler[1].epoch) =>
         \E i \in 1..Len(groups) :
            groups[i].id = last.fired[1].gid /\ groups[i].job_id = <<last.fired[1].key>>

\* C19: whenever add_group returns Ok for an enabled group, that group is
\* in the collection with a job_id that refers to an active job.
C19_SuccessMeansScheduled ==
    (last.op = "new_group" /\ Succeeded(last.status) /\ last.arg.enabled) =>
       /\ Len(groups) > 0
       /\ groups[Len(groups)].id = last.arg.id
       /\ HasActiveJob(groups[Len(groups)])

\* C20: a successful add_group while the scheduler is running appends the
\* new group as the last element and changes nothing else: the groups
\* already there keep position, fields and job_id, the jobs already in the
\* registry stay active, and the length grows by one.
C20_AddAppendsOnly ==
    [][(/\ ~poisoned /\ Running
        /\ last'.op = "new_group" /\ Succeeded(last'.status))
       => /\ Len(groups') = Len(groups) + 1
          /\ \A i \in 1..Len(groups) : groups'[i] = groups[i]
          /\ groups'[Len(groups')].id = last'.arg.id
          /\ groups'[Len(groups')].enabled = last'.arg.enabled
          /\ groups'[Len(groups')].cron = last'.arg.cron
          /\ scheduler'[1].epoch = scheduler[1].epoch
          /\ scheduler[1].keys \subseteq scheduler'[1].keys
          /\ \A e \in Epochs :
               /\ svc'[e].jobs = svc[e].jobs
               /\ svc'[e].state = svc[e].state
               /\ SubSeq(svc'[e].chan, 1, Len(svc[e].chan)) = svc[e].chan]_vars

C20_Witness ==
    /\ last.op = "new_group" /\ Succeeded(last.status)
    /\ Running /\ scheduler[1].keys = {1, 2}
    /\ Len(groups) = 2
    /\ groups[1].job_id = <<1>> /\ groups[2].job_id = <<2>>
    /\ groups[2].id = last.arg.id
    /\ last.errors = <<>>
    /\ svc[scheduler[1].epoch].jobs = {[key |-> 1, gid |-> groups[1].id]}

\* ---- C17 under fair scheduling of the service future ----
\* The closure of the job with key k runs in service e.
FireKey(e, k) == SvcFire(e) /\ last'.fired[1].key = k

\* The spawned service future is polled by the runtime: a command waiting in
\* its channel is taken, and a job it holds comes due again and again.
FairSpec ==
    /\ Spec
    /\ \A e \in Epochs : WF_vars(SvcRecv(e))
    /\ \A e \in Epochs : \A k \in 1..MaxKeys : WF_vars(FireKey(e, k))

HeldBy(e, k) == svc[e].state = "running" /\ \E j \in svc[e].jobs : j.key = k

Fired(e, k) ==
    last.op = "fire" /\ last.fired[1].epoch = e /\ last.fired[1].key = k

SameScheduler == Running /\ Running' /\ scheduler'[1].epoch = scheduler[1].epoch

\* A key leaves the key table of a scheduler only when delete_group removes
\* the group that holds it, and a removed key never comes back.
ScheduledUntilCancelled ==
    SameScheduler =>
       /\ \A k \in scheduler[1].keys \ scheduler'[1].keys :
            /\ last'.op = "delete_group"
            /\ groups[last'.index + 1].job_id = <<k>>
       /\ \A k \in 1..(scheduler[1].next - 1) :
            k \notin scheduler[1].keys => k \notin scheduler'[1].keys

\* A job leaves its service only when the service takes a command off its
\* channel (a removal, or the channel closed); firing never ends it.
HeldUntilRemoved ==
    \A e \in Epochs : \A j \in svc[e].jobs :
       (j \notin svc'[e].jobs) => last'.op = "recv"

\* C17: a job never completes on its own: it stays scheduled until it is
\* cancelled and never returns afterwards, and as long as the service holds
\* it, it fires again and again under fair scheduling of the service.
C17_JobsArePerpetual ==
    /\ [][ScheduledUntilCancelled /\ HeldUntilRemoved]_vars
    /\ \A e \in Epochs : \A k \in 1..MaxKeys :
         <>[]HeldBy(e, k) => []<>Fired(e, k)

C17_Witness ==
    /\ Fired(1, 1) /\ HeldBy(1, 1)
    /\ Running /\ scheduler[1].epoch = 1 /\ scheduler[1].keys = {1}
    /\ Len(groups) = 1 /\ groups[1].job_id = <<1>>

\* ---- the commands step by step, behind the Data mutex ----
\* Each invocation takes the lock on its first line and holds the guard to
\* its last; between the two it runs the statements of its handler one at a
\* time, while other invocations and the service future run beside it.

\* data.0.lock() taken although another invocation holds the guard.
can_lock_unguarded(p) == TRUE

\* data.0.lock(): blocks while another invocation holds the guard.
can_lock(p) == owner = <<>>

\* The guard is dropped when the handler returns (or unwinds).
Release(p) ==
    /\ owner' = <<>>
    /\ pc' = [pc EXCEPT ![p] = "idle"]
    /\ req' = [req EXCEPT ![p] = NoReq]

Goto(p, label) == pc' = [pc EXCEPT ![p] = label]

\* The handler panics: the guard is dropped while unwinding and the mutex
\* is poisoned.
Panics(p, arg, index) ==
    /\ poisoned' = TRUE
    /\ last' = Ret(req[p].op, "Panic", arg, index, <<>>, <<>>)
    /\ Release(p)

\* let data = data.0.lock().unwrap(): the first line of every command.
Acquire(p) ==
    /\ pc[p] = "idle"
    /\ can_lock(p)
    /\ IF poisoned
       THEN /\ \E op \in {"get_groups", "new_group", "delete_group"} :
                 last' = Ret(op, "Panic", <<>>, 0, <<>>, <<>>)
            /\ UNCHANGED <<groups, scheduler, svc, poisoned, cvars>>
       ELSE /\ owner' = <<p>>
            /\ \/ /\ Goto(p, "read")
                  /\ req' = [req EXCEPT ![p] =
                               [NoReq EXCEPT !.op = "get_groups",
                                             !.snap = to_json(groups)]]
               \/ /\ Len(groups) < MaxGroups
                  /\ KeysLeft(1)
                  /\ Goto(p, "gen")
                  /\ \E arg \in ArgGroups :
                       req' = [req EXCEPT ![p] =
                                 [NoReq EXCEPT !.op = "new_group", !.arg = arg,
                                               !.snap = to_json(groups)]]
               \/ /\ Goto(p, "del")
                  /\ \E index \in 0..MaxGroups :
                       req' = [req EXCEPT ![p] =
                                 [NoReq EXCEPT !.op = "delete_group",
                                               !.index = index,
                                               !.snap = to_json(groups)]]
            /\ UNCHANGED <<groups, scheduler, svc, poisoned, last>>

\* get_groups: to_json(&data.file.groups)
Read(p) ==
    /\ pc[p] = "read"
    /\ last' = Ret("get_groups", "Ok", to_json(groups), 0, <<>>, <<>>)
    /\ Release(p)
    /\ UNCHANGED <<groups, scheduler, svc, poisoned>>

\* new_group: group.id = data.generate_id()
GenId(p) ==
    /\ pc[p] = "gen"
    /\ \E id \in generate_id(groups) :
         IF id = <<>>
         THEN /\ Panics(p, req[p].arg, 0)
              /\ UNCHANGED <<groups, scheduler, svc>>
         ELSE /\ req' = [req EXCEPT ![p].arg.id = id[1]]
              /\ Goto(p, "add")
              /\ UNCHANGED <<groups, scheduler, svc, poisoned, last, owner>>

\* add_group, Some branch: group.create_job(scheduler, ..)?
CreateJob(p) ==
    /\ pc[p] = "add"
    /\ scheduler # <<>>
    /\ LET h == scheduler[1]
           r == create_job(req[p].arg, h, svc[h.epoch].chan)
       IN IF r.ok
          THEN /\ scheduler' = <<r.h>>
               /\ svc' = [svc EXCEPT ![h.epoch].chan = r.chan]
               /\ req' = [req EXCEPT ![p].arg = r.g]
               /\ Goto(p, "push")
               /\ UNCHANGED <<groups, poisoned, last, owner>>
          ELSE /\ last' = Ret("new_group", "ErrCron", req[p].arg, 0, <<>>, <<>>)
               /\ Release(p)
               /\ UNCHANGED <<groups, scheduler, svc, poisoned>>

\* add_group: self.file.groups.push(group), in either branch.
Push(p) ==
    /\ pc[p] \in {"add", "push"}
    /\ pc[p] = "add" => scheduler = <<>>
    /\ groups' = Append(groups, req[p].arg)
    /\ Goto(p, IF pc[p] = "add" THEN "start" ELSE "save")
    /\ UNCHANGED <<scheduler, svc, poisoned, last, owner, req>>

\* add_group, None branch: self.start()
StartInAdd(p) ==
    /\ pc[p] = "start"
    /\ NextEpoch <= MaxStarts
    /\ LET r == start(groups)
       IN /\ groups' = r.gs
          /\ scheduler' = <<r.h>>
          /\ svc' = spawn(r)
          /\ req' = [req EXCEPT ![p].errors = r.errors]
    /\ Goto(p, "save")
    /\ UNCHANGED <<poisoned, last, owner>>

\* Instance::delete_group up to scheduler.remove(job_id); with no scheduler
\* the group is removed at once.
Unlink(p) ==
    /\ pc[p] = "del"
    /\ IF req[p].index >= Len(groups)
       THEN /\ Panics(p, <<>>, req[p].index)
            /\ UNCHANGED <<groups, scheduler, svc>>
       ELSE IF scheduler = <<>>
       THEN /\ groups' = remove(groups, req[p].index)
            /\ Goto(p, "save")
            /\ UNCHANGED <<scheduler, svc, poisoned, last, owner, req>>
       ELSE LET h == scheduler[1]
                job == groups[req[p].index + 1].job_id
                r == IF job # <<>>
                     THEN sched_remove(h, svc[h.epoch].chan, job[1])
                     ELSE [h |-> h, chan |-> svc[h.epoch].chan]
            IN /\ scheduler' = <<r.h>>
               /\ svc' = [svc EXCEPT ![h.epoch].chan = r.chan]
               /\ Goto(p, "remove")
               /\ UNCHANGED <<groups, poisoned, last, owner, req>>

\* Instance::delete_group: self.file.groups.remove(index) after the job.
RemoveGroup(p) ==
    /\ pc[p] = "remove"
    /\ IF req[p].index >= Len(groups)
       THEN /\ Panics(p, <<>>, req[p].index)
            /\ UNCHANGED <<groups, scheduler, svc>>
       ELSE /\ groups' = remove(groups, req[p].index)
            /\ Goto(p, "save")
            /\ UNCHANGED <<scheduler, svc, poisoned, last, owner, req>>

\* data.save()? and the returned list; the guard is dropped on return.
SaveAndReturn(p) ==
    /\ pc[p] = "save"
    /\ \E saveOk \in BOOLEAN :
         last' = Ret(req[p].op, IF saveOk THEN "Ok" ELSE "ErrSave",
                     req[p].arg, req[p].index, req[p].errors, <<>>)
    /\ Release(p)
    /\ UNCHANGED <<groups, scheduler, svc, poisoned>>

\* One statement of the invocation p.
CmdStep(p) ==
    \/ Read(p)
    \/ GenId(p)
    \/ CreateJob(p)
    \/ Push(p)
    \/ StartInAdd(p)
    \/ Unlink(p)
    \/ RemoveGroup(p)
    \/ SaveAndReturn(p)

NextLock ==
    \/ \E p \in Procs : Acquire(p)
    \/ \E p \in Procs : CmdStep(p)
    \/ \E e \in Epochs : SvcRecv(e)
    \/ \E e \in Epochs : SvcFire(e)

SpecLock == Init /\ [][NextLock]_vars

\* ---- claims C11 and C12 under SpecLock ----
InFlight == {p \in Procs : pc[p] # "idle"}

\* One entry of the list a command returns.
JsonOf(g) == [id |-> g.id, enabled |-> g.enabled, cron |-> g.cron]

\* The collection an invocation must find at its current statement if no
\* other invocation touched the store since it took the lock.
OwnView(p) ==
    IF req[p].op = "new_group" /\ pc[p] \in {"start", "save"}
    THEN Append(req[p].snap, JsonOf(req[p].arg))
    ELSE IF req[p].op = "delete_group" /\ pc[p] = "save"
    THEN remove(req[p].snap, req[p].index)
    ELSE req[p].snap

\* C11: the commands are serialized by the lock: at most one invocation is
\* between its first and last statement, every invocation finds the
\* collection exactly as its own statements left it (so each command acts as
\* one atomic step and get_groups never reads a collection another command
\* is in the middle of changing), and ids stay unique.
C11_CommandsSerialized ==
    /\ Cardinality(InFlight) <= 1
    /\ \A p \in InFlight : owner = <<p>> /\ to_json(groups) = OwnView(p)
    /\ InFlight = {} => owner = <<>>
    /\ (InFlight = {} /\ last.op = "get_groups" /\ last.status = "Ok") =>
          last.arg = to_json(groups)
    /\ DistinctIds(groups)

C11_Witness ==
    /\ owner = <<1>> /\ pc[1] = "start" /\ pc[2] = "idle"
    /\ Len(groups) = 2 /\ groups[2].job_id = <<>> /\ Schedulable(groups[2])
    /\ ~ENABLED Acquire(2)

HoldsJobs(e) == svc[e].state = "running" /\ svc[e].jobs # {}

\* A step of a service future: it fires a closure, takes a command off its
\* channel, or exits.
ServiceStep ==
    \/ last' # last /\ last'.op \in {"fire", "recv"}
    \/ \E e \in Epochs :
          \/ svc'[e].jobs # svc[e].jobs
          \/ Len(svc'[e].chan) < Len(svc[e].chan)
          \/ svc[e].state = "running" /\ svc'[e].state = "exited"

\* C12: the background loop never reads or locks the store: a job the
\* service holds can fire whoever holds the lock, a step of the service
\* changes neither the collection nor the lock, and the invocation holding
\* the lock can always take its next statement, so the two never wait on
\* each other.
C12_LoopNeverTakesLock ==
    /\ [](\A e \in Epochs : HoldsJobs(e) => ENABLED SvcFire(e))
    /\ [](\A p \in InFlight : ENABLED CmdStep(p))
    /\ [][ServiceStep
          => UNCHANGED <<groups, scheduler, poisoned, owner, pc, req>>]_vars

C12_Witness ==
    /\ last.op = "fire"
    /\ owner = <<1>> /\ pc[1] = "push"
    /\ Running /\ last.fired[1].epoch = scheduler[1].epoch
    /\ \E i \in 1..Len(groups) : groups[i].id = last.fired[1].gid

====
